---------------------------- MODULE Spec2Model ----------------------------
(***************************************************************************)
(* Model of backend/main.py (StudySpark AI API): page-aware chunking, the  *)
(* per-document TF-IDF index, retrieval and merge, the document stores     *)
(* (Postgres tables and the in-memory caches) and the /upload, /pdf,       *)
(* /docs, /chat endpoints.                                                 *)
(*                                                                         *)
(* Text is a sequence of one-character strings.  Relevance scores are in   *)
(* hundredths (0.05 is 5).  The values sklearn computes (the cosine        *)
(* similarities, the order numpy.argsort gives to equal scores) and the    *)
(* replies of the LLM service are inputs of the actions.                   *)
(***************************************************************************)
EXTENDS Integers, Sequences, FiniteSets, TLC

VARIABLES
    ENGINE,        \* main.py:33   TRUE iff DATABASE_URL is set
    phase,         \* "boot" (module loaded), "serving", "failed" (startup raised)
    db_documents,  \* table documents: doc_id -> row
    db_chunks,     \* table chunks: rows in ascending id order
    DOC_STORE,     \* main.py:88   doc_id -> full text
    PAGE_STORE,    \* main.py:89   doc_id -> pages text
    CHUNK_STORE,   \* main.py:90   doc_id -> chunks
    VEC_STORE,     \* main.py:91   doc_id -> index
    DOC_META,      \* main.py:92   doc_id -> filename, num_pages
    PDF_STORE,     \* main.py:93   doc_id -> pdf bytes
    uuids,         \* number of document ids issued so far (uuid4 never repeats)
    response,      \* the last response sent
    trace,         \* locals of the last /chat request (query, LLM calls, prompt)
    call           \* a direct call of a helper: arguments and result

vars == <<ENGINE, phase, db_documents, db_chunks, DOC_STORE, PAGE_STORE,
          CHUNK_STORE, VEC_STORE, DOC_META, PDF_STORE, uuids, response,
          trace, call>>

stores == <<DOC_STORE, PAGE_STORE, CHUNK_STORE, VEC_STORE, DOC_META, PDF_STORE>>
tables == <<db_documents, db_chunks>>

(***************************************************************************)
(* Bounds                                                                  *)
(***************************************************************************)
MaxPageLen == 3     \* longest page text given to chunk_pages directly
MaxChunkSize == 3   \* largest chunk_size given to chunk_pages directly
MaxDocs == 1        \* uploads that reach the id generator

(***************************************************************************)
(* Text helpers (Python str operations)                                    *)
(***************************************************************************)
Max(a, b) == IF a >= b THEN a ELSE b
Min(a, b) == IF a <= b THEN a ELSE b

CR == "\r"
NL == "\n"
Whitespace == {" ", NL, CR, "\t"}

\* s[a:b] for 0 <= a, 0 <= b
Slice(s, a, b) == SubSeq(s, a + 1, Min(b, Len(s)))

\* s.replace(ch, "") / s.replace(ch, by) for one-character ch
Remove(s, ch) == SelectSeq(s, LAMBDA c : c # ch)
Replace(s, ch, by) == [i \in 1..Len(s) |-> IF s[i] = ch THEN by ELSE s[i]]

\* not s.strip()
IsBlank(s) == \A i \in 1..Len(s) : s[i] \in Whitespace

\* s.strip()
strip(s) ==
    IF IsBlank(s) THEN <<>>
    ELSE LET first == CHOOSE i \in 1..Len(s) :
                         /\ s[i] \notin Whitespace
                         /\ \A j \in 1..(i - 1) : s[j] \in Whitespace
             last == CHOOSE i \in 1..Len(s) :
                         /\ s[i] \notin Whitespace
                         /\ \A j \in (i + 1)..Len(s) : s[j] \in Whitespace
         IN SubSeq(s, first, last)

\* s.startswith(p)
startswith(s, p) == Len(s) >= Len(p) /\ SubSeq(s, 1, Len(p)) = p

\* n copies of the character c
Rep(c, n) == [i \in 1..n |-> c]

RECURSIVE Flatten(_)
Flatten(ss) == IF ss = <<>> THEN <<>> ELSE Head(ss) \o Flatten(Tail(ss))

\* sep.join(ss)
RECURSIVE join(_, _)
join(sep, ss) ==
    IF ss = <<>> THEN <<>>
    ELSE IF Len(ss) = 1 THEN Head(ss)
    ELSE Head(ss) \o sep \o join(sep, Tail(ss))

\* All sequences over S of length at most n
RECURSIVE SeqsUpTo(_, _)
SeqsUpTo(S, n) ==
    IF n = 0 THEN {<<>>}
    ELSE LET shorter == SeqsUpTo(S, n - 1)
         IN shorter \cup {Append(s, x) : s \in {t \in shorter : Len(t) = n - 1}, x \in S}

(***************************************************************************)
(* chunk_pages (main.py:116-131)                                           *)
(***************************************************************************)
\* the while loop of one page, from offset i
RECURSIVE chunk_text(_, _, _, _, _)
chunk_text(text, page_idx, i, chunk_size, overlap) ==
    IF i < Len(text)
    THEN <<[text |-> Slice(text, i, i + chunk_size), page |-> page_idx]>>
         \o chunk_text(text, page_idx, i + Max(1, chunk_size - overlap),
                       chunk_size, overlap)
    ELSE <<>>

\* the body of the for loop for one page
chunk_page(page_text, page_idx, chunk_size, overlap) ==
    LET text == Remove(page_text, CR)
    IN IF IsBlank(text) THEN <<>>
       ELSE chunk_text(text, page_idx, 0, chunk_size, overlap)

chunk_pages(pages, chunk_size, overlap) ==
    Flatten([p \in 1..Len(pages) |-> chunk_page(pages[p], p, chunk_size, overlap)])


(***************************************************************************)
(* Initial values of the service: module load, main.py:31-34 and 88-93     *)
(***************************************************************************)
Empty == <<>>       \* the empty dict / the empty table

NoResponse == [op |-> "none"]
NoTrace == [op |-> "none"]
NoCall == [fn |-> "none"]

ModuleLoaded ==
    /\ phase = "boot"
    /\ db_documents = Empty
    /\ db_chunks = <<>>
    /\ DOC_STORE = Empty
    /\ PAGE_STORE = Empty
    /\ CHUNK_STORE = Empty
    /\ VEC_STORE = Empty
    /\ DOC_META = Empty
    /\ PDF_STORE = Empty
    /\ uuids = 0
    /\ response = NoResponse
    /\ trace = NoTrace

(***************************************************************************)
(* SpecChunk: chunk_pages called directly on bounded inputs                *)
(***************************************************************************)
MaxPages == 2       \* pages in a direct call of chunk_pages

ChunkAlphabet == {"a", " ", CR}
ChunkPageTexts == SeqsUpTo(ChunkAlphabet, MaxPageLen)

InitChunk ==
    /\ ENGINE = TRUE
    /\ ModuleLoaded
    /\ \E pages \in SeqsUpTo(ChunkPageTexts, MaxPages) \ {<<>>},
          chunk_size \in 1..MaxChunkSize, overlap \in 0..MaxChunkSize :
          call = [fn |-> "chunk_pages", pc |-> "call", pages |-> pages,
                  chunk_size |-> chunk_size, overlap |-> overlap, result |-> <<>>]

ChunkPagesCall ==
    /\ call.fn = "chunk_pages"
    /\ call.pc = "call"
    /\ call' = [call EXCEPT !.pc = "done",
                            !.result = chunk_pages(call.pages, call.chunk_size, call.overlap)]
    /\ UNCHANGED <<ENGINE, phase, tables, stores, uuids, response, trace>>

NextChunk == ChunkPagesCall

SpecChunk == InitChunk /\ [][NextChunk]_vars

\* the passages a result holds for page p, in order
PassagesOf(result, p) == SelectSeq(result, LAMBDA c : c.page = p)

\* Spans as the chunking contract fixes them: the first passage starts at 0 and
\* each next one starts overlap characters before the end of the previous one.
RECURSIVE SpanStart(_, _, _)
SpanStart(ps, k, overlap) ==
    IF k = 1 THEN 0
    ELSE SpanStart(ps, k - 1, overlap) + Len(ps[k - 1].text) - overlap

SpanEnd(ps, k, overlap) == SpanStart(ps, k, overlap) + Len(ps[k].text)

ChunkDone == call.fn = "chunk_pages" /\ call.pc = "done"

\* the pages of the call the chunking claims speak about: not whitespace-only
\* (so N >= 1), with 0 <= O < L
ChunkClaimPages ==
    IF ChunkDone /\ call.overlap < call.chunk_size
    THEN {p \in 1..Len(call.pages) : ~IsBlank(Remove(call.pages[p], CR))}
    ELSE {}

\* C1: for a page text of length N >= 1 that is not whitespace-only, chunk
\* length L and overlap O with 0 <= O < L, the passages of the page (a) cover
\* [0, N) without a gap, (b) have length <= L each, and (c) consecutive
\* passages overlap by exactly O characters, only the final passage being
\* allowed to be shorter than L.
C1_ChunkSpansContract ==
    \A p \in ChunkClaimPages :
        LET text == Remove(call.pages[p], CR)
            ps == PassagesOf(call.result, p)
            L == call.chunk_size
            O == call.overlap
        IN /\ Len(ps) >= 1
           /\ \A k \in 1..Len(ps) :
                 /\ Len(ps[k].text) <= L
                 /\ ps[k].text = Slice(text, SpanStart(ps, k, O), SpanEnd(ps, k, O))
                 /\ k < Len(ps) => Len(ps[k].text) = L
           /\ SpanEnd(ps, Len(ps), O) = Len(text)

\* C2: a non-blank page whose text is strictly shorter than the chunk length
\* yields exactly one passage, equal to the whole page text.
C2_ShortPageOnePassage ==
    \A p \in ChunkClaimPages :
        LET text == Remove(call.pages[p], CR)
            ps == PassagesOf(call.result, p)
        IN Len(text) < call.chunk_size => /\ Len(ps) = 1
                                          /\ ps[1].text = text

(***************************************************************************)
(* build_tfidf_index (main.py:134-138)                                     *)
(***************************************************************************)
\* Characters of the texts of the model that match \w
WordChars == {"a", "b", "h", "i", "m"}

\* TfidfVectorizer's default token pattern is \b\w\w+\b: a text has a token iff
\* two word characters are adjacent in it.
HasToken(text) ==
    \E i \in 1..(Len(text) - 1) : text[i] \in WordChars /\ text[i + 1] \in WordChars

\* fit_transform raises ValueError (empty vocabulary) when no text has a token
FitRaises(chunks) == \A i \in 1..Len(chunks) : ~HasToken(chunks[i].text)

\* The fitted index: the matrix has one row per text it was fitted on.
TfidfIndex(chunks) ==
    [rows |-> Len(chunks), texts |-> [i \in 1..Len(chunks) |-> chunks[i].text]]

\* VEC_STORE after build_tfidf_index(doc_id, chunks) returns
build_tfidf_index(vec_store, doc_id, chunks) ==
    (doc_id :> TfidfIndex(chunks)) @@ vec_store

(***************************************************************************)
(* retrieve_chunks_for_doc (main.py:141-170)                               *)
(***************************************************************************)
\* Scores, in hundredths, that cosine_similarity may give a passage: in a
\* direct call of the retriever, and in a /chat request (both sides of 0.05)
Scores == {0, 4, 5}
ChatScores == {4, 5}

Label(rank) == <<"S", rank>>     \* f"S{rank}"

\* dict.get(key, default)
Get(store, key, default) == IF key \in DOMAIN store THEN store[key] ELSE default

Perms(n) == {p \in [1..n -> 1..n] : \A i, j \in 1..n : i # j => p[i] # p[j]}

\* The results numpy.argsort may give for v: ascending, equal values in any
\* order (the default sort kind is not stable).
Argsorts(v) ==
    {p \in Perms(Len(v)) : \A i \in 1..(Len(v) - 1) : v[p[i]] <= v[p[i + 1]]}

Reverse(s) == [i \in 1..Len(s) |-> s[Len(s) + 1 - i]]

\* What cosine_similarity(q, matrix) may be for an index: one score per row,
\* equal for rows fitted on equal texts, 0 for a row without a token
CosineSimilarities(index, scores) ==
    {v \in [1..index.rows -> scores \cup {0}] :
        \A i \in 1..index.rows :
            /\ v[i] \notin scores => ~HasToken(index.texts[i])
            /\ ~HasToken(index.texts[i]) => v[i] = 0
            /\ \A j \in 1..index.rows : index.texts[i] = index.texts[j] => v[i] = v[j]}

\* The similarity vectors and argsort results a query may meet for the
\* indexes stored
SimsFor(vec_store, scores) ==
    {f \in [DOMAIN vec_store ->
                UNION {CosineSimilarities(vec_store[d], scores) : d \in DOMAIN vec_store}] :
        \A d \in DOMAIN vec_store : f[d] \in CosineSimilarities(vec_store[d], scores)}

OrdersFor(sims) ==
    {o \in [DOMAIN sims -> UNION {Argsorts(sims[d]) : d \in DOMAIN sims}] :
        \A d \in DOMAIN sims : o[d] \in Argsorts(sims[d])}

\* sims: doc_id -> the vector cosine_similarity(q, matrix).flatten();
\* order: doc_id -> the vector sims.argsort()
retrieve_chunks_for_doc(doc_id, sims, order, k) ==
    LET chunks == Get(CHUNK_STORE, doc_id, <<>>)
    IN IF doc_id \notin DOMAIN VEC_STORE \/ chunks = <<>> THEN <<>>
       ELSE LET top_idx == Slice(Reverse(order[doc_id]), 0, k)
                ranks == SelectSeq([r \in 1..Len(top_idx) |-> r],
                                   LAMBDA r : top_idx[r] <= Len(chunks))
            IN [n \in 1..Len(ranks) |->
                   LET i == top_idx[ranks[n]]
                   IN [id |-> Label(ranks[n]),
                       doc_id |-> doc_id,
                       score |-> sims[doc_id][i],
                       text |-> chunks[i].text,
                       page |-> chunks[i].page]]

(***************************************************************************)
(* merge_retrieval (main.py:173-183)                                       *)
(***************************************************************************)
\* list.sort(key=score, reverse=True): stable, descending
RECURSIVE InsertByScore(_, _)
InsertByScore(sorted, hit) ==
    IF sorted = <<>> THEN <<hit>>
    ELSE IF Head(sorted).score >= hit.score
         THEN <<Head(sorted)>> \o InsertByScore(Tail(sorted), hit)
         ELSE <<hit>> \o sorted

RECURSIVE SortByScoreDesc(_)
SortByScoreDesc(hits) ==
    IF hits = <<>> THEN <<>>
    ELSE InsertByScore(SortByScoreDesc(SubSeq(hits, 1, Len(hits) - 1)), hits[Len(hits)])

\* the hits of the for loop at main.py:175-176
all_hits(doc_ids, sims, order, k_per_doc) ==
    Flatten([n \in 1..Len(doc_ids) |->
                retrieve_chunks_for_doc(doc_ids[n], sims, order, k_per_doc)])

\* main.py:181-182
Relabel(merged) == [idx \in 1..Len(merged) |-> [merged[idx] EXCEPT !.id = Label(idx)]]

\* merge_retrieval without the loop at main.py:181-182
merge_retrieval_keeps_labels(doc_ids, sims, order, top_k_total, k_per_doc) ==
    Slice(SortByScoreDesc(all_hits(doc_ids, sims, order, k_per_doc)), 0, top_k_total)

merge_retrieval(doc_ids, sims, order, top_k_total, k_per_doc) ==
    Relabel(Slice(SortByScoreDesc(all_hits(doc_ids, sims, order, k_per_doc)),
                  0, top_k_total))

(***************************************************************************)
(* Requests and collaborators                                              *)
(***************************************************************************)
chunk_size == 1200          \* main.py:392
overlap == 200              \* main.py:392
top_k_total == 7            \* main.py:564
k_per_doc == 5              \* main.py:564
MinScore == 5               \* main.py:566  (0.05, in hundredths)
ExcerptLen == 350           \* main.py:640
\* A page two characters longer than the step chunk_size - overlap: its second
\* passage is the token "bb"
LongPage == Rep("a", chunk_size - overlap) \o <<"b", "b">>

\* PDF files a client may upload: the bytes (opaque), the name sent with them
\* and the page texts PyPDF2 extracts (stripped, main.py:112).
PDFs ==
    { [content |-> "long", filename |-> "notes.pdf", pages |-> <<LongPage>>],
      [content |-> "char", filename |-> "", pages |-> << <<"a">> >>],
      [content |-> "scan", filename |-> "scan.pdf", pages |-> << <<>> >>] }

DocIds == 1..MaxDocs        \* the uuid4 values issued, in order of issue
UnknownId == MaxDocs + 1    \* an id that is never issued
RequestIds == DocIds \cup {UnknownId}

ArabicChars == {"U+0645", "U+0627"}     \* two characters of U+0600..U+06FF

\* detect_lang (main.py:97-104)
detect_lang(text) ==
    IF \E i \in 1..Len(text) : text[i] \in ArabicChars THEN "ar" ELSE "en"

LLMError == <<"L", "L", "M", " ", "E", "r", "r", "o", "r", ":">>

\* What call_llm may return (main.py:186-210): the model's text, which may be
\* blank, or the error string; it never raises.
TranslationReplies == {<<"h", "i", NL>>, <<" ">>, LLMError \o <<" ", "4", "0", "1">>}
AnswerReplies == {<<"o", "k">>, LLMError}

Messages == {<<"h", "i">>, <<"U+0645", "U+0627">>}
Langs == {"auto", "ar", "fr"}           \* req.lang after strip().lower()

\* translate_to_english_if_needed without the test for the error prefix
translate_unchecked(text, reply) ==
    IF detect_lang(text) = "ar"
    THEN LET translated == strip(reply)
         IN IF translated = <<>> THEN text ELSE translated
    ELSE text

\* translate_to_english_if_needed (main.py:213-232); reply is what call_llm
\* returns if it is called
translate_to_english_if_needed(text, reply) ==
    IF detect_lang(text) = "ar"
    THEN LET translated == strip(reply)
         IN IF translated = <<>> \/ startswith(translated, <<"L", "L", "M", " ", "E", "r", "r", "o", "r">>)
            THEN text
            ELSE translated
    ELSE text

\* main.py:556-561
resolve_answer_lang(lang, message) ==
    LET answer_lang == IF lang \in {"auto", "ar", "en"} THEN lang ELSE "auto"
    IN IF answer_lang = "auto" THEN detect_lang(message) ELSE answer_lang

(***************************************************************************)
(* load_all_docs_from_db and on_startup (main.py:325-368)                  *)
(***************************************************************************)
Drop(store, key) == [k \in DOMAIN store \ {key} |-> store[k]]

\* the rows of table chunks of one document, ORDER BY id
ChunksOf(chunk_rows, doc_id) ==
    LET rows == SelectSeq(chunk_rows, LAMBDA c : c.doc_id = doc_id)
    IN [i \in 1..Len(rows) |-> [text |-> rows[i].text, page |-> rows[i].page]]

\* doc ids ORDER BY created_at DESC
RECURSIVE ByCreatedDesc(_)
ByCreatedDesc(ids) ==
    IF ids = {} THEN <<>>
    ELSE LET newest == CHOOSE d \in ids :
                          \A e \in ids : db_documents[e].created_at <= db_documents[d].created_at
         IN <<newest>> \o ByCreatedDesc(ids \ {newest})

ClearedStores ==
    [DOC_STORE |-> Empty, PAGE_STORE |-> Empty, CHUNK_STORE |-> Empty,
     VEC_STORE |-> Empty, DOC_META |-> Empty, PDF_STORE |-> Empty, raised |-> FALSE]

\* the for loop at main.py:335-351 over the documents left, from stores st
RECURSIVE LoadDocs(_, _)
LoadDocs(docs, st) ==
    IF docs = <<>> THEN st
    ELSE LET doc_id == Head(docs)
             d == db_documents[doc_id]
             chunks == ChunksOf(db_chunks, doc_id)
             st1 == [st EXCEPT
                        !.DOC_STORE = (doc_id :> d.full_text) @@ @,
                        !.DOC_META = (doc_id :> [filename |-> d.filename,
                                                 num_pages |-> d.num_pages]) @@ @,
                        !.PDF_STORE = (doc_id :> d.pdf_bytes) @@ @,
                        !.CHUNK_STORE = (doc_id :> chunks) @@ @]
         IN IF chunks = <<>> THEN LoadDocs(Tail(docs), st1)
            ELSE IF FitRaises(chunks) THEN [st1 EXCEPT !.raised = TRUE]
            ELSE LoadDocs(Tail(docs),
                          [st1 EXCEPT !.VEC_STORE = build_tfidf_index(@, doc_id, chunks)])

load_all_docs_from_db == LoadDocs(ByCreatedDesc(DOMAIN db_documents), ClearedStores)

Idle == phase = "serving" /\ response = NoResponse

\* The process starts: on_startup runs once, before any request is served.  An
\* exception in it ends the process (the application does not start).
on_startup ==
    /\ phase = "boot"
    /\ IF ~ENGINE
       THEN /\ phase' = "serving"
            /\ UNCHANGED stores
       ELSE LET st == load_all_docs_from_db
            IN /\ phase' = IF st.raised THEN "failed" ELSE "serving"
               /\ DOC_STORE' = st.DOC_STORE
               /\ PAGE_STORE' = st.PAGE_STORE
               /\ CHUNK_STORE' = st.CHUNK_STORE
               /\ VEC_STORE' = st.VEC_STORE
               /\ DOC_META' = st.DOC_META
               /\ PDF_STORE' = st.PDF_STORE
    /\ UNCHANGED <<ENGINE, tables, uuids, response, trace, call>>

\* The process ends (deploy, crash, failed startup) and a new one is started:
\* the module is loaded again, the tables stay.
Restart ==
    /\ phase \in {"serving", "failed"}
    /\ response = NoResponse
    /\ phase' = "boot"
    /\ DOC_STORE' = Empty
    /\ PAGE_STORE' = Empty
    /\ CHUNK_STORE' = Empty
    /\ VEC_STORE' = Empty
    /\ DOC_META' = Empty
    /\ PDF_STORE' = Empty
    /\ UNCHANGED <<ENGINE, tables, uuids, response, trace, call>>

\* The response of the request in hand has been sent
Deliver ==
    /\ response # NoResponse
    /\ response' = NoResponse
    /\ trace' = NoTrace
    /\ UNCHANGED <<ENGINE, phase, tables, stores, uuids, call>>

\* get_db (main.py:55-66) raises before the handler's body runs
DbNotConfigured(op) ==
    /\ ~ENGINE
    /\ response' = [op |-> op, status |-> 500, detail |-> "DATABASE_URL not configured."]
    /\ UNCHANGED <<ENGINE, phase, tables, stores, uuids, trace, call>>

(***************************************************************************)
(* POST /upload (main.py:372-419)                                          *)
(***************************************************************************)
\* main.py:379
FullText(pages) == join(<<NL, NL>>, SelectSeq(pages, LAMBDA p : ~IsBlank(p)))

upload_pdf(file) ==
    /\ Idle
    /\ ENGINE
    /\ LET pages == file.pages
           full_text == FullText(pages)
       IN IF IsBlank(full_text)
          THEN /\ response' = [op |-> "upload", status |-> 200, doc_id |-> "",
                               text |-> <<>>, message |-> "no text extracted"]
               /\ UNCHANGED <<tables, stores, uuids>>
          ELSE /\ uuids < MaxDocs
               /\ LET doc_id == uuids + 1
                      filename == IF file.filename = "" THEN "document.pdf" ELSE file.filename
                      num_pages == Len(pages)
                      chunks == chunk_pages(pages, chunk_size, overlap)
                  IN /\ uuids' = doc_id
                     \* persist to DB (main.py:396-409)
                     /\ db_documents' = (doc_id :> [filename |-> filename,
                                                    num_pages |-> num_pages,
                                                    full_text |-> full_text,
                                                    pdf_bytes |-> file.content,
                                                    created_at |-> doc_id]) @@ db_documents
                     /\ db_chunks' = db_chunks \o
                            [i \in 1..Len(chunks) |-> [doc_id |-> doc_id,
                                                       page |-> chunks[i].page,
                                                       text |-> chunks[i].text]]
                     \* update in-memory cache (main.py:412-417)
                     /\ PDF_STORE' = (doc_id :> file.content) @@ PDF_STORE
                     /\ DOC_STORE' = (doc_id :> full_text) @@ DOC_STORE
                     /\ PAGE_STORE' = (doc_id :> pages) @@ PAGE_STORE
                     /\ DOC_META' = (doc_id :> [filename |-> filename,
                                                num_pages |-> num_pages]) @@ DOC_META
                     /\ CHUNK_STORE' = (doc_id :> chunks) @@ CHUNK_STORE
                     /\ IF FitRaises(chunks)
                        THEN /\ VEC_STORE' = VEC_STORE
                             /\ response' = [op |-> "upload", status |-> 500,
                                             detail |-> "Internal Server Error"]
                        ELSE /\ VEC_STORE' = build_tfidf_index(VEC_STORE, doc_id, chunks)
                             /\ response' = [op |-> "upload", status |-> 200,
                                             doc_id |-> doc_id, text |-> full_text,
                                             filename |-> filename,
                                             num_pages |-> num_pages]
    /\ UNCHANGED <<ENGINE, phase, trace, call>>

Upload == (Idle /\ DbNotConfigured("upload")) \/ \E file \in PDFs : upload_pdf(file)

(***************************************************************************)
(* GET /pdf/{doc_id} (main.py:423-446)                                     *)
(***************************************************************************)
get_pdf(doc_id) ==
    /\ Idle
    /\ ENGINE
    /\ IF doc_id \in DOMAIN PDF_STORE
       THEN /\ response' = [op |-> "pdf", status |-> 200, doc_id |-> doc_id,
                            body |-> PDF_STORE[doc_id],
                            filename |-> Get(DOC_META, doc_id,
                                             [filename |-> "document.pdf"]).filename]
            /\ UNCHANGED stores
       ELSE IF doc_id \notin DOMAIN db_documents
       THEN /\ response' = [op |-> "pdf", status |-> 404, doc_id |-> doc_id,
                            detail |-> "PDF not found. Re-upload the PDF."]
            /\ UNCHANGED stores
       ELSE LET d == db_documents[doc_id]
            IN /\ PDF_STORE' = (doc_id :> d.pdf_bytes) @@ PDF_STORE
               /\ DOC_META' = (doc_id :> [filename |-> d.filename,
                                          num_pages |-> d.num_pages]) @@ DOC_META
               /\ response' = [op |-> "pdf", status |-> 200, doc_id |-> doc_id,
                               body |-> d.pdf_bytes, filename |-> d.filename]
               /\ UNCHANGED <<DOC_STORE, PAGE_STORE, CHUNK_STORE, VEC_STORE>>
    /\ UNCHANGED <<ENGINE, phase, tables, uuids, trace, call>>

GetPdf == (Idle /\ DbNotConfigured("pdf")) \/ \E doc_id \in RequestIds : get_pdf(doc_id)

(***************************************************************************)
(* GET /docs, GET /docs/{doc_id} (main.py:450-474)                         *)
(***************************************************************************)
list_docs ==
    /\ Idle
    /\ ENGINE
    /\ LET docs == ByCreatedDesc(DOMAIN db_documents)
       IN response' = [op |-> "list", status |-> 200,
                       docs |-> [i \in 1..Len(docs) |->
                                    [doc_id |-> docs[i],
                                     filename |-> db_documents[docs[i]].filename,
                                     num_pages |-> db_documents[docs[i]].num_pages,
                                     created_at |-> db_documents[docs[i]].created_at]]]
    /\ UNCHANGED <<ENGINE, phase, tables, stores, uuids, trace, call>>

ListDocs == (Idle /\ DbNotConfigured("list")) \/ list_docs

get_doc(doc_id) ==
    /\ Idle
    /\ ENGINE
    /\ IF doc_id \notin DOMAIN db_documents
       THEN response' = [op |-> "get", status |-> 404, doc_id |-> doc_id,
                         detail |-> "Document not found."]
       ELSE response' = [op |-> "get", status |-> 200, doc_id |-> doc_id,
                         filename |-> db_documents[doc_id].filename,
                         num_pages |-> db_documents[doc_id].num_pages,
                         text |-> db_documents[doc_id].full_text]
    /\ UNCHANGED <<ENGINE, phase, tables, stores, uuids, trace, call>>

GetDoc == (Idle /\ DbNotConfigured("get")) \/ \E doc_id \in RequestIds : get_doc(doc_id)

(***************************************************************************)
(* DELETE /docs/{doc_id} (main.py:477-495)                                 *)
(***************************************************************************)
\* main.py:488-493 without VEC_STORE.pop
remove_from_memory_keeps_index(doc_id) ==
    /\ PDF_STORE' = Drop(PDF_STORE, doc_id)
    /\ DOC_STORE' = Drop(DOC_STORE, doc_id)
    /\ PAGE_STORE' = Drop(PAGE_STORE, doc_id)
    /\ CHUNK_STORE' = Drop(CHUNK_STORE, doc_id)
    /\ VEC_STORE' = VEC_STORE
    /\ DOC_META' = Drop(DOC_META, doc_id)

\* main.py:488-493 without PDF_STORE.pop
remove_from_memory_keeps_pdf(doc_id) ==
    /\ PDF_STORE' = PDF_STORE
    /\ DOC_STORE' = Drop(DOC_STORE, doc_id)
    /\ PAGE_STORE' = Drop(PAGE_STORE, doc_id)
    /\ CHUNK_STORE' = Drop(CHUNK_STORE, doc_id)
    /\ VEC_STORE' = Drop(VEC_STORE, doc_id)
    /\ DOC_META' = Drop(DOC_META, doc_id)

\* main.py:488-493
remove_from_memory(doc_id) ==
    /\ PDF_STORE' = Drop(PDF_STORE, doc_id)
    /\ DOC_STORE' = Drop(DOC_STORE, doc_id)
    /\ PAGE_STORE' = Drop(PAGE_STORE, doc_id)
    /\ CHUNK_STORE' = Drop(CHUNK_STORE, doc_id)
    /\ VEC_STORE' = Drop(VEC_STORE, doc_id)
    /\ DOC_META' = Drop(DOC_META, doc_id)

delete_doc(doc_id) ==
    /\ Idle
    /\ ENGINE
    /\ IF doc_id \notin DOMAIN db_documents
       THEN /\ response' = [op |-> "delete", status |-> 404, doc_id |-> doc_id,
                            detail |-> "Document not found."]
            /\ UNCHANGED <<tables, stores>>
       ELSE /\ db_chunks' = SelectSeq(db_chunks, LAMBDA c : c.doc_id # doc_id)
            /\ db_documents' = Drop(db_documents, doc_id)
            /\ remove_from_memory(doc_id)
            /\ response' = [op |-> "delete", status |-> 200, ok |-> TRUE,
                            doc_id |-> doc_id]
    /\ UNCHANGED <<ENGINE, phase, uuids, trace, call>>

DeleteDoc == (Idle /\ DbNotConfigured("delete")) \/ \E doc_id \in RequestIds : delete_doc(doc_id)

(***************************************************************************)
(* POST /chat (main.py:548-644)                                            *)
(***************************************************************************)
None == <<>>        \* an Optional[str] is <<>> (None) or <<value>>
Modes == {"strict"}     \* ChatRequest.mode is left at its default

\* ChatRequest.doc_ids: lists of at most two ids
DocIdLists ==
    {<<>>} \cup {<<a>> : a \in RequestIds} \cup {<<a, b>> : a, b \in RequestIds}

\* ChatRequest (main.py:251-258); history is left at its default, [], too
ChatRequests ==
    {[doc_ids |-> l, doc_id |-> None, message |-> m, mode |-> mo, lang |-> la] :
        l \in DocIdLists, m \in Messages, mo \in Modes, la \in Langs}
    \cup
    {[doc_ids |-> <<>>, doc_id |-> <<d>>, message |-> m, mode |-> mo, lang |-> la] :
        d \in RequestIds, m \in Messages, mo \in Modes, la \in Langs}

\* build_mode_instructions (main.py:262-294), by the name of the text returned
build_mode_instructions(mode) ==
    CASE mode = "chatty" -> "MODE: CHATTY"
      [] mode = "simple" -> "MODE: SIMPLE"
      [] mode = "exam"   -> "MODE: EXAM"
      [] OTHER           -> "MODE: STRICT"

\* main.py:593-601 with build_output_format (main.py:297-321)
OutputFormat(mode, answer_lang) ==
    IF mode \in {"strict", "exam", "simple"}
    THEN IF answer_lang = "ar" THEN "OUTPUT FORMAT (Arabic)" ELSE "OUTPUT FORMAT (English)"
    ELSE "OUTPUT (Chatty)"

Restrict(f, S) == [x \in (DOMAIN f) \cap S |-> f[x]]
Range(s) == {s[i] : i \in 1..Len(s)}

\* main.py:550
RequestedIds(req) ==
    IF req.doc_ids # <<>> THEN req.doc_ids
    ELSE IF req.doc_id # None THEN <<req.doc_id[1]>> ELSE <<>>

\* main.py:551
ValidIds(requested) == SelectSeq(requested, LAMBDA d : d \in DOMAIN DOC_STORE)

\* main.py:571-577
numbered_context(retrieved) ==
    [n \in 1..Len(retrieved) |->
        [id |-> retrieved[n].id,
         filename |-> IF retrieved[n].doc_id \in DOMAIN DOC_META
                      THEN DOC_META[retrieved[n].doc_id].filename
                      ELSE retrieved[n].doc_id,
         page |-> retrieved[n].page,
         text |-> retrieved[n].text]]

\* main.py:630-642
Sources(retrieved) ==
    [n \in 1..Len(retrieved) |->
        [id |-> retrieved[n].id,
         doc_id |-> retrieved[n].doc_id,
         filename |-> IF retrieved[n].doc_id \in DOMAIN DOC_META
                      THEN DOC_META[retrieved[n].doc_id].filename
                      ELSE "",
         page |-> retrieved[n].page,
         score |-> retrieved[n].score,
         excerpt |-> strip(Replace(Slice(retrieved[n].text, 0, ExcerptLen), NL, " "))]]

\* the test at main.py:566 with <= for <
BelowOrAtThreshold(retrieved) == retrieved = <<>> \/ retrieved[1].score <= MinScore

\* main.py:566
BelowThreshold(retrieved) == retrieved = <<>> \/ retrieved[1].score < MinScore

chat_with_pdf(req) ==
    /\ Idle
    /\ LET requested == RequestedIds(req)
           doc_ids == ValidIds(requested)
           base == [op |-> "chat", requested |-> requested, doc_ids |-> doc_ids,
                    message |-> req.message, lang |-> req.lang]
       IN IF doc_ids = <<>>
          THEN /\ response' = [op |-> "chat", status |-> 200,
                               answer |-> [kind |-> "no valid doc_id(s)"],
                               sources |-> <<>>, answer_lang |-> "en"]
               /\ trace' = base @@ [stage |-> "rejected", steps |-> <<>>]
          ELSE LET answer_lang == resolve_answer_lang(req.lang, req.message)
                   translating == detect_lang(req.message) = "ar"
               IN \E reply \in (IF translating THEN TranslationReplies ELSE {None}) :
                  \E sims \in SimsFor(Restrict(VEC_STORE, Range(doc_ids)), ChatScores) :
                  \E order \in OrdersFor(sims) :
                     LET retrieval_query ==
                             translate_to_english_if_needed(req.message, reply)
                         retrieved == merge_retrieval(doc_ids, sims, order,
                                                      top_k_total, k_per_doc)
                         \* the calls made so far, in order (main.py:563-564)
                         steps ==
                             (IF translating
                              THEN <<[step |-> "call_llm", purpose |-> "translate",
                                      text |-> req.message, reply |-> reply]>>
                              ELSE <<>>)
                             \o <<[step |-> "merge_retrieval", doc_ids |-> doc_ids,
                                   query |-> retrieval_query, retrieved |-> retrieved]>>
                     IN IF BelowThreshold(retrieved)
                        THEN /\ response' = [op |-> "chat", status |-> 200,
                                             answer |-> [kind |-> "no relevant content",
                                                         lang |-> IF answer_lang = "ar"
                                                                  THEN "ar" ELSE "en"],
                                             sources |-> <<>>,
                                             answer_lang |-> IF answer_lang = "ar"
                                                             THEN "ar" ELSE "en"]
                             /\ trace' = base @@ [stage |-> "no relevant content",
                                                  steps |-> steps]
                        ELSE \E answer \in AnswerReplies :
                               LET prompt ==
                                       [mode_instructions |-> build_mode_instructions(req.mode),
                                        out_fmt |-> OutputFormat(req.mode, answer_lang),
                                        history_text |-> <<>>,
                                        context |-> numbered_context(retrieved),
                                        message |-> req.message,
                                        lang_rule |-> IF answer_lang = "ar"
                                                      THEN "Answer in Arabic only."
                                                      ELSE "Answer in English only."]
                               IN /\ response' = [op |-> "chat", status |-> 200,
                                                  answer |-> [kind |-> "llm", text |-> answer],
                                                  sources |-> Sources(retrieved),
                                                  answer_lang |-> answer_lang]
                                  /\ trace' = base @@
                                         [stage |-> "answered",
                                          steps |-> steps \o
                                              <<[step |-> "call_llm", purpose |-> "answer",
                                                 prompt |-> prompt, reply |-> answer]>>]
    /\ UNCHANGED <<ENGINE, phase, tables, stores, uuids, call>>

Chat == \E req \in ChatRequests : chat_with_pdf(req)

(***************************************************************************)
(* The service                                                             *)
(***************************************************************************)
Init ==
    /\ ENGINE \in BOOLEAN
    /\ ModuleLoaded
    /\ call = NoCall

Next ==
    \/ on_startup
    \/ Restart
    \/ Deliver
    \/ Upload
    \/ GetPdf
    \/ ListDocs
    \/ GetDoc
    \/ DeleteDoc
    \/ Chat

Spec == Init /\ [][Next]_vars

(***************************************************************************)
(* SpecRetrieve: retrieve_chunks_for_doc and merge_retrieval called        *)
(* directly, with bounded k, on the stores two uploads leave               *)
(***************************************************************************)
MaxPassages == 3    \* passages of the larger document
MaxK == 3           \* largest k, top_k_total and k_per_doc of a direct call

\* A PDF of n short pages, "ab" and "ba" in turn: chunk_pages gives one
\* passage per page
PagedPdf(n) ==
    [content |-> <<"paged", n>>, filename |-> "paged.pdf",
     pages |-> [p \in 1..n |-> IF p % 2 = 1 THEN <<"a", "b">> ELSE <<"b", "a">>]]

\* The stores and tables after the PDFs in uploaded (doc_id -> PDF) were
\* uploaded one by one to a fresh service
Uploaded(uploaded) ==
    LET ids == DOMAIN uploaded
        chunks == [d \in ids |-> chunk_pages(uploaded[d].pages, chunk_size, overlap)]
        n == Cardinality(ids)
        rows == [d \in ids |->
                    [i \in 1..Len(chunks[d]) |-> [doc_id |-> d, page |-> chunks[d][i].page,
                                                  text |-> chunks[d][i].text]]]
    IN /\ ENGINE = TRUE
       /\ phase = "serving"
       /\ uuids = n
       /\ db_documents = [d \in ids |-> [filename |-> uploaded[d].filename,
                                         num_pages |-> Len(uploaded[d].pages),
                                         full_text |-> FullText(uploaded[d].pages),
                                         pdf_bytes |-> uploaded[d].content,
                                         created_at |-> d]]
       /\ db_chunks = Flatten([d \in 1..n |-> rows[d]])
       /\ PDF_STORE = [d \in ids |-> uploaded[d].content]
       /\ DOC_STORE = [d \in ids |-> FullText(uploaded[d].pages)]
       /\ PAGE_STORE = [d \in ids |-> uploaded[d].pages]
       /\ DOC_META = [d \in ids |-> [filename |-> uploaded[d].filename,
                                     num_pages |-> Len(uploaded[d].pages)]]
       /\ CHUNK_STORE = chunks
       /\ VEC_STORE = [d \in ids |-> TfidfIndex(chunks[d])]
       /\ response = NoResponse
       /\ trace = NoTrace

RetrieveIds == {1, 2, 3}    \* two documents stored and an id that is not

InitRetrieve ==
    /\ \E n \in 1..MaxPassages : Uploaded(<<PagedPdf(n), PagedPdf(1)>>)
    /\ call = NoCall

RetrieveCall ==
    /\ call = NoCall
    /\ \E doc_id \in RetrieveIds, k \in 0..MaxK :
       \E sims \in SimsFor(Restrict(VEC_STORE, {doc_id}), Scores) :
       \E order \in OrdersFor(sims) :
          call' = [fn |-> "retrieve_chunks_for_doc", doc_id |-> doc_id, k |-> k,
                   sims |-> sims, order |-> order,
                   result |-> retrieve_chunks_for_doc(doc_id, sims, order, k)]
    /\ UNCHANGED <<ENGINE, phase, tables, stores, uuids, response, trace>>

MergeLists ==
    {<<>>} \cup {<<a>> : a \in RetrieveIds} \cup {<<a, b>> : a, b \in RetrieveIds}

MergeCall ==
    /\ call = NoCall
    /\ \E doc_ids \in MergeLists, total_k \in 0..MaxK, per_doc_k \in 0..MaxK :
       \E sims \in SimsFor(Restrict(VEC_STORE, Range(doc_ids)), Scores) :
       \E order \in OrdersFor(sims) :
          call' = [fn |-> "merge_retrieval", doc_ids |-> doc_ids,
                   top_k_total |-> total_k, k_per_doc |-> per_doc_k,
                   sims |-> sims, order |-> order,
                   result |-> merge_retrieval(doc_ids, sims, order, total_k, per_doc_k)]
    /\ UNCHANGED <<ENGINE, phase, tables, stores, uuids, response, trace>>

NextRetrieve == RetrieveCall \/ MergeCall

SpecRetrieve == InitRetrieve /\ [][NextRetrieve]_vars

NonIncreasing(hits) == \A i \in 1..(Len(hits) - 1) : hits[i].score >= hits[i + 1].score

\* the position in the document's passage sequence of the passage a hit holds
\* (every passage of a paged PDF is on a page of its own)
PassageOf(hit) ==
    CHOOSE i \in 1..Len(CHUNK_STORE[hit.doc_id]) :
        CHUNK_STORE[hit.doc_id][i] = [text |-> hit.text, page |-> hit.page]

RetrieveDone ==
    /\ call.fn = "retrieve_chunks_for_doc"
    /\ call.doc_id \in DOMAIN VEC_STORE

\* C3: for an indexed document with n passages, retrieve_chunks_for_doc returns
\* min(k, n) hits in non-increasing score order; hits of equal score are in
\* passage order, and of passages that tie at the cut-off the earlier are kept.
C3_RetrieveTiesInPassageOrder ==
    RetrieveDone =>
        LET hits == call.result
            n == Len(CHUNK_STORE[call.doc_id])
            scores == call.sims[call.doc_id]
            returned == {PassageOf(hits[i]) : i \in 1..Len(hits)}
        IN /\ Len(hits) = Min(call.k, n)
           /\ NonIncreasing(hits)
           /\ \A i \in 1..Len(hits) : hits[i].score = scores[PassageOf(hits[i])]
           /\ \A i, j \in 1..Len(hits) :
                 (i < j /\ hits[i].score = hits[j].score)
                     => PassageOf(hits[i]) < PassageOf(hits[j])
           /\ \A p \in (1..n) \ returned : \A q \in returned :
                 scores[p] < scores[q] \/ (scores[p] = scores[q] /\ q < p)

MergeDone == call.fn = "merge_retrieval"

\* the concatenated per-document hits of the call
Concatenated ==
    all_hits(call.doc_ids, call.sims, call.order, call.k_per_doc)

\* how many hits of the concatenation go before its c-th hit in a stable
\* descending sort
RankedBefore(hits, c) ==
    Cardinality({b \in 1..Len(hits) :
                    \/ hits[b].score > hits[c].score
                    \/ (hits[b].score = hits[c].score /\ b < c)})

SameHit(a, b) ==
    /\ a.doc_id = b.doc_id
    /\ a.score = b.score
    /\ a.text = b.text
    /\ a.page = b.page

\* C4: merge_retrieval returns m = min(total_k, number of concatenated hits)
\* hits, ordered by non-increasing score with hits of equal score in
\* concatenation order, and the hit at position i is labelled "S" followed by i.
C4_MergeRankedAndLabelled ==
    MergeDone =>
        LET hits == call.result
            concat == Concatenated
        IN /\ Len(hits) = Min(call.top_k_total, Len(concat))
           /\ NonIncreasing(hits)
           /\ \A i \in 1..Len(hits) :
                 /\ hits[i].id = <<"S", i>>
                 /\ \E c \in 1..Len(concat) :
                       /\ RankedBefore(concat, c) = i - 1
                       /\ SameHit(hits[i], concat[c])

\* a merge of both documents in which the second document's hit comes first,
\* the first document's top hit changes its label from S1 to S2, and a hit of
\* the same score as the last one kept is cut off
C4_Witness ==
    /\ MergeDone
    /\ call.doc_ids = <<1, 2>>
    /\ Len(call.result) = 2
    /\ call.result[1].doc_id = 2
    /\ call.result[2].doc_id = 1
    /\ \E c, d \in 1..Len(Concatenated) :
          /\ RankedBefore(Concatenated, c) = 1
          /\ Concatenated[c].id = <<"S", 1>>
          /\ RankedBefore(Concatenated, d) = 2
          /\ Concatenated[d].score = call.result[2].score

(***************************************************************************)
(* Properties of the service (Spec)                                        *)
(***************************************************************************)
ChatDone == response.op = "chat"
Pipeline == ChatDone /\ trace.stage # "rejected"

\* the merge_retrieval step of the last /chat request
MergeStep ==
    LET n == CHOOSE i \in 1..Len(trace.steps) : trace.steps[i].step = "merge_retrieval"
    IN trace.steps[n]

LlmCalls(purpose) ==
    {i \in 1..Len(trace.steps) :
        trace.steps[i].step = "call_llm" /\ trace.steps[i].purpose = purpose}

\* C5: whenever an index is stored for a document id, a passage list is stored
\* for the same id, the index has one row per passage of that list and was
\* built from exactly those passages; the hits a query gets come from such a
\* pair.
C5_IndexMatchesPassages ==
    /\ \A d \in DOMAIN VEC_STORE :
          /\ d \in DOMAIN CHUNK_STORE
          /\ VEC_STORE[d].rows = Len(CHUNK_STORE[d])
          /\ VEC_STORE[d].texts = [i \in 1..Len(CHUNK_STORE[d]) |-> CHUNK_STORE[d][i].text]
    /\ Pipeline =>
          \A n \in 1..Len(MergeStep.retrieved) :
              LET hit == MergeStep.retrieved[n]
              IN \E i \in 1..VEC_STORE[hit.doc_id].rows :
                    /\ VEC_STORE[hit.doc_id].texts[i] = hit.text
                    /\ CHUNK_STORE[hit.doc_id][i] = [text |-> hit.text, page |-> hit.page]

\* an index rebuilt by the startup load (the pages are not reloaded), in use
C5_Witness ==
    /\ phase = "serving"
    /\ VEC_STORE # Empty
    /\ PAGE_STORE = Empty
    /\ Pipeline
    /\ Len(MergeStep.retrieved) = 2

\* no table and no store holds any part of document d
Gone(d) ==
    /\ d \notin DOMAIN db_documents
    /\ \A i \in 1..Len(db_chunks) : db_chunks[i].doc_id # d
    /\ d \notin DOMAIN PDF_STORE
    /\ d \notin DOMAIN DOC_STORE
    /\ d \notin DOMAIN PAGE_STORE
    /\ d \notin DOMAIN CHUNK_STORE
    /\ d \notin DOMAIN VEC_STORE
    /\ d \notin DOMAIN DOC_META

\* the same of the state a step leads to
GoneNext(d) ==
    /\ d \notin DOMAIN db_documents'
    /\ \A i \in 1..Len(db_chunks') : db_chunks'[i].doc_id # d
    /\ d \notin DOMAIN PDF_STORE'
    /\ d \notin DOMAIN DOC_STORE'
    /\ d \notin DOMAIN PAGE_STORE'
    /\ d \notin DOMAIN CHUNK_STORE'
    /\ d \notin DOMAIN VEC_STORE'
    /\ d \notin DOMAIN DOC_META'

\* what a delete request does in one step
DeleteStep ==
    (response = NoResponse /\ response'.op = "delete") =>
        /\ response'.status = 200 =>
              /\ response'.doc_id \in DOMAIN db_documents
              /\ GoneNext(response'.doc_id)
        /\ response'.status # 200 => UNCHANGED <<tables, stores>>
        /\ ENGINE =>
              /\ response'.doc_id \in DOMAIN db_documents => response'.status = 200
              /\ response'.doc_id \notin DOMAIN db_documents => response'.status = 404

\* what a later request shows of a document that is gone
UnobservedStep ==
    \A d \in 1..uuids :
        Gone(d) =>
            /\ GoneNext(d)
            /\ (response'.op \in {"pdf", "get", "delete"} /\ ENGINE /\ response'.doc_id = d)
                  => response'.status = 404
            /\ response'.op = "list"
                  => (ENGINE => \A i \in 1..Len(response'.docs) : response'.docs[i].doc_id # d)
            /\ response'.op = "chat"
                  => /\ d \notin Range(trace'.doc_ids)
                     /\ \A i \in 1..Len(response'.sources) : response'.sources[i].doc_id # d

\* C6: deleting an existing document removes its passages, index, raw bytes,
\* full text and metadata from the tables and from every store, and no later
\* chat, preview, get or list shows any part of it; deleting an id that does
\* not exist (a second delete included) is answered not-found, never success,
\* and changes no table and no store.
C6_DeleteRemovesEverything == [][DeleteStep /\ UnobservedStep]_vars

\* a delete of an id that was issued, and so stored, and is now gone: the
\* second delete of a document
C6_Witness ==
    /\ response.op = "delete"
    /\ ENGINE
    /\ response.status = 404
    /\ response.doc_id \in 1..uuids

\* C7: a chat whose requested ids include an id absent from the store is
\* answered with a not-found condition (the 404 status, or the reply that no
\* requested id is valid), also when valid ids are requested with it.
C7_UnknownIdIsNotFound ==
    (ChatDone /\ \E i \in 1..Len(trace.requested) :
                     trace.requested[i] \notin DOMAIN DOC_STORE)
        => \/ response.status = 404
           \/ response.answer.kind = "no valid doc_id(s)"

\* C8: when the merged hit list is empty or its top score is below 0.05 the
\* response is the "no relevant content" result with no citation and no call
\* of the LLM for an answer; when the top score is at least 0.05 the response
\* has one citation per hit, in the order and with the labels of the passages
\* of the prompt.
C8_ThresholdAndCitations ==
    Pipeline =>
        LET retrieved == MergeStep.retrieved
        IN IF retrieved = <<>> \/ retrieved[1].score < 5
           THEN /\ response.answer.kind = "no relevant content"
                /\ response.sources = <<>>
                /\ LlmCalls("answer") = {}
           ELSE /\ Cardinality(LlmCalls("answer")) = 1
                /\ LET context == trace.steps[Len(trace.steps)].prompt.context
                   IN /\ Len(response.sources) = Len(retrieved)
                      /\ Len(context) = Len(retrieved)
                      /\ \A i \in 1..Len(retrieved) :
                            /\ response.sources[i].id = <<"S", i>>
                            /\ context[i].id = <<"S", i>>
                            /\ response.sources[i].doc_id = retrieved[i].doc_id
                            /\ response.sources[i].page = retrieved[i].page
                            /\ response.sources[i].score = retrieved[i].score
                            /\ context[i].page = retrieved[i].page
                            /\ context[i].text = retrieved[i].text

\* an answer with two citations whose top score is exactly 0.05
C8_Witness ==
    /\ Pipeline
    /\ trace.stage = "answered"
    /\ Len(response.sources) = 2
    /\ response.sources[1].score = 5
    /\ response.sources[2].score = 4

\* hits of the list that share document doc_id, and page too
OfDoc(hits, doc_id) == {i \in 1..Len(hits) : hits[i].doc_id = doc_id}
OfPage(hits, doc_id, page) ==
    {i \in 1..Len(hits) : hits[i].doc_id = doc_id /\ hits[i].page = page}

CapsRespected(hits, p, d) ==
    \A i \in 1..Len(hits) :
        /\ Cardinality(OfPage(hits, hits[i].doc_id, hits[i].page)) <= p
        /\ Cardinality(OfDoc(hits, hits[i].doc_id)) <= d

\* C9: the passages a query exports to the generator and returns as citations
\* hold at most max_per_page hits of one (document, page) and at most
\* max_per_doc hits of one document, whatever caps p >= 1 and d >= 1 are
\* configured.
C9_DiversificationCaps ==
    (Pipeline /\ trace.stage = "answered") =>
        \A p \in 1..k_per_doc, d \in 1..k_per_doc :
            /\ CapsRespected(response.sources, p, d)
            /\ CapsRespected(MergeStep.retrieved, p, d)

TranslationFailed(reply) ==
    \/ IsBlank(reply)
    \/ startswith(reply, <<"L", "L", "M", " ", "E", "r", "r", "o", "r">>)

HasArabic(text) == \E i \in 1..Len(text) : text[i] \in ArabicChars

\* C10: for a query with Arabic characters the translation is requested before
\* retrieval, and if it fails or is blank the retrieval query is the original
\* query and the request still ends in a normal response; for a query without
\* Arabic characters no translation is requested; the answer language is
\* resolved from the original query.
C10_TranslationFallback ==
    Pipeline =>
        LET translations == LlmCalls("translate")
            merge == MergeStep
        IN /\ HasArabic(trace.message) =>
                 /\ translations = {1}
                 /\ trace.steps[2].step = "merge_retrieval"
                 /\ trace.steps[1].text = trace.message
                 /\ TranslationFailed(trace.steps[1].reply) => merge.query = trace.message
                 /\ ~TranslationFailed(trace.steps[1].reply) => ~HasArabic(merge.query)
           /\ ~HasArabic(trace.message) =>
                 /\ translations = {}
                 /\ merge.query = trace.message
           /\ response.status = 200
           /\ response.answer.kind \in {"no relevant content", "llm"}
           /\ response.answer_lang =
                 IF trace.lang \in {"ar", "en"} THEN trace.lang
                 ELSE IF HasArabic(trace.message) THEN "ar" ELSE "en"

\* an Arabic query whose translation failed, retrieved with and answered
C10_Witness ==
    /\ Pipeline
    /\ trace.stage = "answered"
    /\ HasArabic(trace.message)
    /\ startswith(trace.steps[1].reply, LLMError)
    /\ MergeStep.query = trace.message
    /\ response.answer_lang = "ar"

NotConfigured == [status |-> 500, detail |-> "DATABASE_URL not configured."]

RefusedForNoDb ==
    /\ response.status = NotConfigured.status
    /\ response.detail = NotConfigured.detail

\* C11: when no database is configured (ENGINE is None) an upload is not
\* refused for the missing database: it is answered by the handler, and a
\* document id it returns is installed in the in-memory stores, so that a chat
\* naming it retrieves against it; the endpoints that read or delete through
\* the database (pdf, list, get, delete) are the ones that fail.
C11_UploadWorksWithoutDb ==
    (~ENGINE /\ response # NoResponse) =>
        /\ response.op = "upload" =>
              /\ ~RefusedForNoDb
              /\ (response.status = 200 /\ "filename" \in DOMAIN response) =>
                    /\ response.doc_id \in DOMAIN DOC_STORE
                    /\ response.doc_id \in DOMAIN CHUNK_STORE
                    /\ response.doc_id \in DOMAIN VEC_STORE
        /\ response.op \in {"pdf", "list", "get", "delete"} => RefusedForNoDb

=============================================================================
